---------------------------- MODULE Spec2Model ----------------------------
(***************************************************************************)
(* StopPubbySi: the native Android call-screening binding (Kotlin), the    *)
(* React Native wrapper around it, and the client's network calls.         *)
(*                                                                         *)
(* The repository holds several successive versions of the same Kotlin     *)
(* classes.  The model names them:                                         *)
(*   service  "block1"  src/unnamed/part_003            (block only)       *)
(*            "block2"  CallBlockerService.kt 420-546   (block only)       *)
(*            "whisper" src/unnamed/part_004            (AI, recording)    *)
(*            "tts"     CallBlockerService.kt 1-418     (AI, TextToSpeech) *)
(*   module   "basic"   src/unnamed/part_002                               *)
(*            "ai"      CallBlockerModule.kt 1-238                         *)
(*            "role"    CallBlockerModule.kt 240-562                       *)
(* A phone number is a sequence of one-character strings.                  *)
(***************************************************************************)
EXTENDS Integers, Sequences, FiniteSets, TLC

VARIABLES
    mNumber,    \* matcher check: the incoming number
    mList,      \* matcher check: the stored blocked list
    mResult,    \* matcher check: <<>> before, <<verdicts>> after classification
    build,      \* the installed versions: [service |-> ..., module |-> ...]
    prefs,      \* SharedPreferences: <<file, key>> -> <<>> (unset) or <<value>>
    clock,      \* System.currentTimeMillis(), one tick per screened call
    lastCall,   \* <<>> or <<what onScreenCall did with the latest call>>
    timers,     \* Handler.postDelayed: the callbacks waiting, [number, stage]
    utterance,  \* TextToSpeech: <<>> or <<[number, id]>> of the message being spoken
    recording,  \* MediaRecorder ("whisper"): <<>> or <<id of the recording file>>
    lastCallback, \* <<>> or <<the effects of the latest delayed callback>>
    blockedLog, \* the calls answered disallow+reject since the history was cleared
    wrapper,    \* CallBlocker wrapper: which version of the wrapper is bundled
    platform,   \* CallBlocker wrapper: Platform.OS
    pending,    \* CallBlocker wrapper: <<>> or <<op>> awaiting the native module
    settled,    \* CallBlocker wrapper: <<>> or <<how the latest operation ended>>
    nativeCalls, \* CallBlocker wrapper: native calls made by the latest operation
    server,     \* settings screen: auto_block_spam as the backend stores it
    shown,      \* settings screen: settings.auto_block_spam, the switch
    toggles,    \* settings screen: the updateSetting calls in flight
    started,    \* settings screen: how many updateSetting calls were started
    completed,  \* settings screen: the updateSetting calls that returned
    netStack,   \* network functions: the calls awaiting, the innermost last
    netSettled, \* network functions: how the calls of the latest invocation ended
    netRequests, \* network functions: HTTP requests issued by the latest invocation
    icCurrent,  \* StopPubInCallService.currentCall: <<>> (null) or <<[id, number, state]>>
    icCalls,    \* in-call service: how many calls were added so far
    icActs,     \* the InCallActivity of each call: aiAnsweredCall, aiScreeningPerformed
    icTimers,   \* InCallActivity handler.postDelayed: the callbacks waiting, [kind, owner]
    icAnswers,  \* the Call.answer requests made, in order: [call, by, owner, state]
    icGreeted,  \* the activities whose performAIScreening spoke the greeting
    bFilter,    \* blocked screen: the selected category and search text
    bShown,     \* blocked screen: spamNumbers, <<>> or <<the answer displayed>>
    bFetches,   \* blocked screen: the fetchData calls in flight
    bAdds,      \* blocked screen: the addNumber calls in flight
    bBackend,   \* backend: how many numbers were added to the spam list
    bStarted,   \* blocked screen: how many fetchData calls were started
    bGetFailed, \* blocked screen: whether some fetchData got no usable answer
    stNative,   \* native module: call-screening role held, dialer role held, AI flag
    stScreen,   \* settings screen: callBlockingEnabled, isDefaultDialer, aiScreeningEnabled
    stPc,       \* settings screen: where checkCallBlockerStatus stands
    stFailed,   \* settings screen: whether a native call of the check rejected
    auStored,   \* AsyncStorage: the item session_token
    auUser,     \* AuthProvider: user
    auToken,    \* AuthProvider: sessionToken
    auRuns,     \* AuthProvider: the calls of logout and exchangeSessionId in flight
    auStarted,  \* AuthProvider: how many calls were started
    auEnded,    \* AuthProvider: what each ended logout left behind
    rrRequests, \* native module: the role requests made, in order; the promise of each
    rrPending,  \* native module: roleRequestPromise (0 when null)
    rrSettled,  \* native module: for each promise, the settlements it received
    rrDialogs   \* the system role dialogs that were launched and have not answered

matchVars == <<mNumber, mList, mResult>>
screenVars ==
    <<build, prefs, clock, lastCall, timers, utterance, recording, lastCallback, blockedLog>>

wrapperVars == <<wrapper, platform, pending, settled, nativeCalls>>

settingsVars == <<server, shown, toggles, started, completed>>

netVars == <<netStack, netSettled, netRequests>>

inCallVars == <<icCurrent, icCalls, icActs, icTimers, icAnswers, icGreeted>>

\* The parts added after the first five
blockedVars == <<bFilter, bShown, bFetches, bAdds, bBackend, bStarted, bGetFailed>>

statusVars == <<stNative, stScreen, stPc, stFailed>>

authVars == <<auStored, auUser, auToken, auRuns, auStarted, auEnded>>

roleVars == <<rrRequests, rrPending, rrSettled, rrDialogs>>

laterVars == <<inCallVars, blockedVars, statusVars, authVars, roleVars>>

vars == <<matchVars, screenVars, wrapperVars, settingsVars, netVars, laterVars>>

\* What each part leaves alone
MatchOthers == <<screenVars, wrapperVars, settingsVars, netVars, laterVars>>
ScreenOthers == <<matchVars, wrapperVars, settingsVars, netVars, laterVars>>
WrapperOthers == <<matchVars, screenVars, settingsVars, netVars, laterVars>>
SettingsOthers == <<matchVars, netVars, laterVars>>
NetOthers == <<matchVars, screenVars, wrapperVars, settingsVars, laterVars>>
FirstFive == <<matchVars, screenVars, wrapperVars, settingsVars, netVars>>
InCallOthers == <<FirstFive, blockedVars, statusVars, authVars, roleVars>>
BlockedOthers == <<FirstFive, inCallVars, statusVars, authVars, roleVars>>
StatusOthers == <<FirstFive, inCallVars, blockedVars, authVars, roleVars>>
AuthOthers == <<FirstFive, inCallVars, blockedVars, statusVars, roleVars>>
RoleOthers == <<FirstFive, inCallVars, blockedVars, statusVars, authVars>>

-----------------------------------------------------------------------------
(* Strings, as Kotlin's String operations compute them                     *)

Digits == {"0", "1", "2", "3", "4", "5", "6", "7", "8", "9"}

\* String.replace(Regex("[^...]"), ""): keep the characters of `keep`
RECURSIVE KeepChars(_, _)
KeepChars(s, keep) ==
    IF s = <<>> THEN <<>>
    ELSE IF Head(s) \in keep THEN <<Head(s)>> \o KeepChars(Tail(s), keep)
         ELSE KeepChars(Tail(s), keep)

\* String.takeLast(n)
TakeLast(s, n) ==
    IF Len(s) <= n THEN s ELSE SubSeq(s, Len(s) - n + 1, Len(s))

\* String.endsWith(suffix)
EndsWith(s, suffix) ==
    /\ Len(suffix) <= Len(s)
    /\ SubSeq(s, Len(s) - Len(suffix) + 1, Len(s)) = suffix

\* String.startsWith(prefix)
StartsWith(s, prefix) ==
    /\ Len(prefix) <= Len(s)
    /\ SubSeq(s, 1, Len(prefix)) = prefix

\* String.contains(other)
Contains(s, other) ==
    \E i \in 0..(Len(s) - Len(other)) : SubSeq(s, i + 1, i + Len(other)) = other

-----------------------------------------------------------------------------
(* The native matchers                                                     *)

NormalizedLen == 9
FrenchNationalLen == 10

\* CallBlockerService ("tts"): digits only, last 9
normalizePhoneNumber(number) == TakeLast(KeepChars(number, Digits), NormalizedLen)

\* CallBlockerService ("tts"): the test of isNumberBlocked's loop
EntryMatches(normalizedNumber, blocked) ==
    \/ EndsWith(normalizedNumber, blocked)
    \/ EndsWith(blocked, normalizedNumber)
    \/ Contains(normalizedNumber, blocked)
    \/ Contains(blocked, normalizedNumber)

\* CallBlockerService ("tts"): isNumberBlocked over the stored list
isNumberBlocked(phoneNumber, blockedNumbers) ==
    \E i \in 1..Len(blockedNumbers) :
        EntryMatches(normalizePhoneNumber(phoneNumber),
                     normalizePhoneNumber(blockedNumbers[i]))

\* InCallActivity: isNumberBlocked (equality of the last 9 digits)
isNumberBlockedInCall(phoneNumber, blockedNumbers) ==
    \E i \in 1..Len(blockedNumbers) :
        TakeLast(KeepChars(phoneNumber, Digits), NormalizedLen)
            = TakeLast(KeepChars(blockedNumbers[i], Digits), NormalizedLen)

\* The earlier services ("block1", "block2", "whisper"): digits and +, 0X... to +33X...
normalizePhoneNumberOld(number) ==
    LET normalized == KeepChars(number, Digits \cup {"+"})
    IN  IF StartsWith(normalized, <<"0">>) /\ Len(normalized) = FrenchNationalLen
        THEN <<"+", "3", "3">> \o SubSeq(normalized, 2, Len(normalized))
        ELSE normalized

\* The earlier services: the blocked-list loop of shouldBlockNumber
matchesBlockedListOld(phoneNumber, blockedNumbers) ==
    \E i \in 1..Len(blockedNumbers) :
        LET normalizedNumber == normalizePhoneNumberOld(phoneNumber)
            blockedNumber == normalizePhoneNumberOld(blockedNumbers[i])
        IN  \/ normalizedNumber = blockedNumber
            \/ EndsWith(normalizedNumber, blockedNumber)
            \/ EndsWith(blockedNumber, normalizedNumber)

-----------------------------------------------------------------------------
(* Written forms of phone numbers                                          *)

SubscriberA == <<"6", "1", "2", "3", "4", "5", "6", "7", "8">>
SubscriberB == <<"6", "9", "8", "7", "6", "5", "4", "3", "2">>

National(s) == <<"0">> \o s
International(s) == <<"+", "3", "3">> \o s
International00(s) == <<"0", "0", "3", "3">> \o s
\* 06 12 34 56 78 with the separator sep
Grouped(s, sep) ==
    <<"0", s[1], sep, s[2], s[3], sep, s[4], s[5], sep, s[6], s[7], sep, s[8], s[9]>>
\* +33 6 12 34 56 78
InternationalSpaced(s) ==
    <<"+", "3", "3", " ", s[1], " ", s[2], s[3], " ", s[4], s[5], " ",
      s[6], s[7], " ", s[8], s[9]>>

FormsOf(s) ==
    { National(s), International(s), International00(s),
      Grouped(s, " "), Grouped(s, "."), InternationalSpaced(s) }

HiddenNumber == <<>>
NoDigitEntry == <<"a", "n", "o", "n">>
ShortEntry == <<"3", "4", "5">>

\* The numbers the matcher check draws from
WrittenNumbers ==
    FormsOf(SubscriberA) \cup {National(SubscriberB), International(SubscriberB)}
        \cup {HiddenNumber, NoDigitEntry, ShortEntry}

MaxListLen == 2

BlockedLists == UNION { [1..k -> WrittenNumbers] : k \in 0..MaxListLen }

-----------------------------------------------------------------------------
(* The matcher check: classify one incoming number against one stored list *)

MatchInit ==
    /\ mNumber \in WrittenNumbers
    /\ mList \in BlockedLists
    /\ mResult = <<>>

Classify ==
    /\ mResult = <<>>
    /\ mResult' = << [ tts    |-> isNumberBlocked(mNumber, mList),
                       incall |-> isNumberBlockedInCall(mNumber, mList),
                       old    |-> matchesBlockedListOld(mNumber, mList) ] >>
    /\ UNCHANGED <<mNumber, mList>>
    /\ UNCHANGED MatchOthers

MatchIdle == mNumber = <<>> /\ mList = <<>> /\ mResult = <<>>

MatchNext == Classify


-----------------------------------------------------------------------------
(* SharedPreferences                                                       *)

OldPrefs == "StopPubbySiPrefs"
NewPrefs == "call_blocker_prefs"

KeyNames ==
    { "blocked_numbers", "block_unknown_numbers", "auto_block_spam",
      "auto_block_enabled", "ai_screening_enabled", "ai_screening_delay",
      "blocked_history", "blocked_call_history", "pending_screenings" }

PrefKeys == {OldPrefs, NewPrefs} \X KeyNames

Builds ==
    { [service |-> "block1", module |-> "basic"],
      [service |-> "block2", module |-> "basic"],
      [service |-> "whisper", module |-> "ai"],
      [service |-> "tts", module |-> "role"] }

\* The preferences file and the keys of the screening service
ServiceFile(sv) == IF sv = "tts" THEN NewPrefs ELSE OldPrefs

ServiceKey(sv, what) ==
    << ServiceFile(sv),
       CASE what = "blocked"  -> "blocked_numbers"
         [] what = "auto"     -> IF sv = "tts" THEN "auto_block_enabled" ELSE "auto_block_spam"
         [] what = "unknown"  -> "block_unknown_numbers"
         [] what = "ai"       -> "ai_screening_enabled"
         [] what = "delay"    -> "ai_screening_delay"
         [] what = "history"  -> IF sv = "tts" THEN "blocked_call_history" ELSE "blocked_history"
         [] what = "pending"  -> "pending_screenings" >>

\* A mutant of ModuleKey: the history is kept under the other version's key
ModuleKeyOtherHistory(md, what) ==
    << IF md = "role" THEN NewPrefs ELSE OldPrefs,
       CASE what = "blocked"  -> "blocked_numbers"
         [] what = "auto"     -> IF md = "role" THEN "auto_block_enabled" ELSE "auto_block_spam"
         [] what = "unknown"  -> "block_unknown_numbers"
         [] what = "ai"       -> "ai_screening_enabled"
         [] what = "delay"    -> "ai_screening_delay"
         [] what = "history"  -> IF md = "role" THEN "blocked_history" ELSE "blocked_call_history"
         [] what = "pending"  -> "pending_screenings" >>

\* The preferences file and the keys of the native module
ModuleKey(md, what) ==
    << IF md = "role" THEN NewPrefs ELSE OldPrefs,
       CASE what = "blocked"  -> "blocked_numbers"
         [] what = "auto"     -> IF md = "role" THEN "auto_block_enabled" ELSE "auto_block_spam"
         [] what = "unknown"  -> "block_unknown_numbers"
         [] what = "ai"       -> "ai_screening_enabled"
         [] what = "delay"    -> "ai_screening_delay"
         [] what = "history"  -> IF md = "role" THEN "blocked_call_history" ELSE "blocked_history"
         [] what = "pending"  -> "pending_screenings" >>

\* SharedPreferences.getBoolean / getInt / getString (key, default)
PrefGet(p, key, default) == IF p[key] = <<>> THEN default ELSE p[key][1]

\* SharedPreferences.Editor.put...(key, value)
PrefPut(p, key, value) == [p EXCEPT ![key] = <<value>>]

NoPrefs == [k \in PrefKeys |-> <<>>]

-----------------------------------------------------------------------------
(* The blocked-call history and the pending screenings                     *)

HistoryKeepOld == 99
HistoryCap == 100

Min(a, b) == IF a <= b THEN a ELSE b

Range(f) == { f[i] : i \in DOMAIN f }

\* A mutant of addToBlockedHistory: the whole old history is kept
addToBlockedHistoryNoCap(history, entry) == <<entry>> \o history

\* CallBlockerService ("tts"): the new entry first, then at most 99 old ones
addToBlockedHistory(history, entry) ==
    <<entry>> \o SubSeq(history, 1, Min(Len(history), HistoryKeepOld))

\* The earlier services: append, then remove index 0 while longer than 100
saveBlockedCall(history, entry) == TakeLast(Append(history, entry), HistoryCap)

\* CallBlockerService ("tts"): updatePendingScreening sets the status of the first
\* entry of that number
RECURSIVE updatePendingScreening(_, _, _)
updatePendingScreening(screenings, phoneNumber, status) ==
    IF screenings = <<>> THEN <<>>
    ELSE IF Head(screenings).phone_number = phoneNumber
         THEN <<[Head(screenings) EXCEPT !.status = status]>> \o Tail(screenings)
         ELSE <<Head(screenings)>>
                  \o updatePendingScreening(Tail(screenings), phoneNumber, status)

-----------------------------------------------------------------------------
(* The native module (CallBlockerModule.kt): writes                        *)

HasAIOperations(md) == md # "basic"

updateBlockedNumbers(md, p, numbers) == PrefPut(p, ModuleKey(md, "blocked"), numbers)

setAutoBlockEnabled(md, p, enabled) == PrefPut(p, ModuleKey(md, "auto"), enabled)

setBlockUnknownNumbers(md, p, enabled) == PrefPut(p, ModuleKey(md, "unknown"), enabled)

setAIScreeningEnabled(md, p, enabled) == PrefPut(p, ModuleKey(md, "ai"), enabled)

clearPendingScreenings(md, p) == PrefPut(p, ModuleKey(md, "pending"), <<>>)

clearBlockedCallHistory(md, p) == PrefPut(p, ModuleKey(md, "history"), <<>>)

-----------------------------------------------------------------------------
(* The native module: reads                                                *)

DefaultDelayModule == 3

\* getBlockedCallHistory: one map per stored entry
getBlockedCallHistory(md, p) ==
    LET history == PrefGet(p, ModuleKey(md, "history"), <<>>)
    IN  [ i \in 1..Len(history) |->
            [ phone_number |-> history[i].phone_number,
              blocked_at   |-> history[i].blocked_at,
              reason       |-> CASE md = "basic" -> <<>>
                                 [] md = "ai" -> IF history[i].reason = <<>>
                                                 THEN <<"blocked">>
                                                 ELSE history[i].reason
                                 [] md = "role" -> history[i].reason ] ]

\* getSettings
getSettings(md, p) ==
    [ auto_block_spam       |-> PrefGet(p, ModuleKey(md, "auto"), TRUE),
      block_unknown_numbers |-> PrefGet(p, ModuleKey(md, "unknown"), FALSE),
      ai_screening_enabled  |-> IF HasAIOperations(md)
                                THEN <<PrefGet(p, ModuleKey(md, "ai"), FALSE)>> ELSE <<>>,
      ai_screening_delay    |-> IF HasAIOperations(md)
                                THEN <<PrefGet(p, ModuleKey(md, "delay"), DefaultDelayModule)>>
                                ELSE <<>> ]

-----------------------------------------------------------------------------
(* The screening service (CallBlockerService): onScreenCall                *)


BlockResponse == [disallow |-> TRUE, reject |-> TRUE, silence |-> FALSE]
AllowResponse == [disallow |-> FALSE, reject |-> FALSE, silence |-> FALSE]
SilenceResponse == [disallow |-> FALSE, reject |-> FALSE, silence |-> TRUE]

\* The user's contacts, and the caller numbers and lists the screening model draws from
Contacts == { National(SubscriberB) }
CallerNumbers == { National(SubscriberA), National(SubscriberB) }
StoredLists ==
    { <<National(SubscriberA)>>, <<InternationalSpaced(SubscriberA)>>,
      <<National(SubscriberB), ShortEntry>> }

\* CallBlockerService ("tts"): isNumberInContacts; a failed lookup answers false
isNumberInContacts(phoneNumber, lookupFails) ==
    IF lookupFails THEN FALSE ELSE phoneNumber \in Contacts

\* CallBlockerService ("block2"): isKnownNumber
isKnownNumber(phoneNumber) == FALSE

\* The blocked-list test of each service
matchesBlockedList(sv, p, phoneNumber) ==
    LET blockedNumbers == PrefGet(p, ServiceKey(sv, "blocked"), <<>>)
    IN  IF sv = "tts" THEN isNumberBlocked(phoneNumber, blockedNumbers)
        ELSE matchesBlockedListOld(phoneNumber, blockedNumbers)

\* The branch onScreenCall takes
onScreenCallBranch(sv, p, phoneNumber, lookupFails) ==
    LET autoBlockEnabled == PrefGet(p, ServiceKey(sv, "auto"), TRUE)
        blockUnknown == PrefGet(p, ServiceKey(sv, "unknown"), FALSE)
        aiScreeningEnabled == PrefGet(p, ServiceKey(sv, "ai"), FALSE)
        isBlocked == matchesBlockedList(sv, p, phoneNumber)
        isInContacts == isNumberInContacts(phoneNumber, lookupFails)
    IN  CASE sv = "tts" ->
               IF autoBlockEnabled /\ isBlocked THEN "spam"
               ELSE IF blockUnknown /\ ~isInContacts THEN "unknown"
               ELSE IF aiScreeningEnabled /\ ~isInContacts /\ ~isBlocked THEN "ai"
               ELSE "allow"
          [] sv = "whisper" ->
               IF isBlocked /\ autoBlockEnabled THEN "spam"
               ELSE IF aiScreeningEnabled /\ ~isBlocked THEN "ai"
               ELSE "allow"
          [] sv = "block2" ->
               IF ~autoBlockEnabled THEN "disabled"
               ELSE IF isBlocked THEN "spam"
               ELSE IF blockUnknown /\ ~isKnownNumber(phoneNumber) THEN "unknown"
               ELSE "allow"
          [] sv = "block1" ->
               IF ~autoBlockEnabled THEN "disabled"
               ELSE IF isBlocked THEN "spam"
               ELSE IF blockUnknown THEN "unknown"
               ELSE "allow"

\* A mutant of onScreenCallEffects: the AI branch leaves the answer to the callback
onScreenCallEffectsDeferred(sv, branch) ==
    IF branch = "ai" THEN <<"postDelayed">> ELSE <<"respondToCall">>

\* What onScreenCall does, in order, on each branch
onScreenCallEffects(sv, branch) ==
    CASE sv = "tts" /\ branch \in {"spam", "unknown"} ->
           <<"addToBlockedHistory", "showNotification", "respondToCall">>
      [] sv = "tts" /\ branch = "ai" ->
           <<"addToPendingScreenings", "postDelayed", "showNotification", "respondToCall">>
      [] sv = "whisper" /\ branch = "ai" -> <<"respondToCall", "postDelayed">>
      [] sv # "tts" /\ branch \in {"spam", "unknown"} -> <<"saveBlockedCall", "respondToCall">>
      [] OTHER -> <<"respondToCall">>

\* The CallResponse handed to respondToCall
onScreenCallResponse(sv, branch) ==
    CASE branch \in {"spam", "unknown"} -> BlockResponse
      [] branch = "ai" /\ sv = "tts" -> SilenceResponse
      [] OTHER -> AllowResponse

\* The reason stored with a blocked call
historyReason(sv, branch) ==
    CASE sv = "tts" /\ branch = "spam" -> <<"Numero spam connu">>
      [] sv = "tts" /\ branch = "unknown" -> <<"Numero inconnu">>
      [] sv = "whisper" -> <<"spam">>
      [] OTHER -> <<>>

\* The preferences after onScreenCall: the history or the pending screenings
prefsAfterScreening(sv, p, phoneNumber, branch, now) ==
    LET hk == ServiceKey(sv, "history")
        pk == ServiceKey(sv, "pending")
        entry == [phone_number |-> phoneNumber, blocked_at |-> now,
                  reason |-> historyReason(sv, branch)]
    IN  CASE branch \in {"spam", "unknown"} /\ sv = "tts" ->
               PrefPut(p, hk, addToBlockedHistory(PrefGet(p, hk, <<>>), entry))
          [] branch \in {"spam", "unknown"} /\ sv # "tts" ->
               PrefPut(p, hk, saveBlockedCall(PrefGet(p, hk, <<>>), entry))
          [] branch = "ai" /\ sv = "tts" ->
               PrefPut(p, pk, Append(PrefGet(p, pk, <<>>),
                          [phone_number |-> phoneNumber, timestamp |-> now,
                           status |-> "answering", recording_path |-> <<>>]))
          [] OTHER -> p

\* The callback onScreenCall posts on the AI branch
timersAfterScreening(sv, phoneNumber, branch, now) ==
    CASE branch = "ai" /\ sv = "tts" ->
           { [number |-> phoneNumber, id |-> now, stage |-> "performAIScreeningWithAudio"] }
      [] branch = "ai" /\ sv = "whisper" ->
           { [number |-> phoneNumber, id |-> now, stage |-> "startAIScreening"] }
      [] OTHER -> {}

\* onScreenCall(callDetails): the whole handler
OnScreenCallOf(phoneNumber, lookupFails) ==
    LET sv == build.service
        now == clock + 1
        branch == onScreenCallBranch(sv, prefs, phoneNumber, lookupFails)
        response == onScreenCallResponse(sv, branch)
        effects == onScreenCallEffects(sv, branch)
    IN  /\ clock' = now
        /\ prefs' = prefsAfterScreening(sv, prefs, phoneNumber, branch, now)
        /\ timers' = timers \cup timersAfterScreening(sv, phoneNumber, branch, now)
        /\ lastCall' = << [ number |-> phoneNumber, id |-> now, branch |-> branch,
                            inContacts |-> phoneNumber \in Contacts,
                            response |-> IF "respondToCall" \in Range(effects)
                                         THEN <<response>> ELSE <<>>,
                            effects |-> effects ] >>
        /\ blockedLog' = IF "respondToCall" \in Range(effects)
                             /\ response.disallow /\ response.reject
                          THEN Append(blockedLog, [phone_number |-> phoneNumber, id |-> now])
                          ELSE blockedLog
        /\ lastCallback' = <<>>
        /\ UNCHANGED <<build, utterance, recording>>
        /\ UNCHANGED ScreenOthers

-----------------------------------------------------------------------------
(* The screening service: the delayed callbacks and the speech callbacks   *)

Callback(t, effects) == << [stage |-> t.stage, number |-> t.number, effects |-> effects] >>

\* "tts": performAIScreeningWithAudio, posted by onScreenCall
PerformAIScreeningWithAudio(t, ttsReady) ==
    LET pk == ServiceKey("tts", "pending")
    IN  /\ t \in timers
        /\ t.stage = "performAIScreeningWithAudio"
        /\ timers' = timers \ {t}
        /\ IF ttsReady
           THEN /\ utterance' = << [number |-> t.number, id |-> t.id] >>
                /\ prefs' = prefs
                /\ lastCallback' = Callback(t, <<"requestAudioFocus", "speak">>)
           ELSE /\ utterance' = utterance
                /\ prefs' = PrefPut(prefs, pk,
                       updatePendingScreening(PrefGet(prefs, pk, <<>>), t.number,
                                              "tts_not_ready"))
                /\ lastCallback' = Callback(t, <<"updatePendingScreening", "showNotification">>)
        /\ lastCall' = <<>>
        /\ UNCHANGED <<build, clock, recording, blockedLog>>
        /\ UNCHANGED ScreenOthers

\* "whisper": startAIScreening, posted by onScreenCall
StartAIScreening(t, answered) ==
    /\ t \in timers
    /\ t.stage = "startAIScreening"
    /\ IF answered
       THEN /\ timers' = (timers \ {t}) \cup {[t EXCEPT !.stage = "playGreetingAndRecord"]}
            /\ lastCallback' = Callback(t, <<"acceptRingingCall", "postDelayed">>)
       ELSE /\ timers' = timers \ {t}
            /\ lastCallback' = Callback(t, <<"sendScreeningNotification">>)
    /\ lastCall' = <<>>
    /\ UNCHANGED <<build, prefs, clock, utterance, recording, blockedLog>>
    /\ UNCHANGED ScreenOthers

\* "whisper": playGreetingAndRecord
PlayGreetingAndRecord(t, isTTSReady) ==
    /\ t \in timers
    /\ t.stage = "playGreetingAndRecord"
    /\ timers' = timers \ {t}
    /\ IF isTTSReady
       THEN /\ utterance' = << [number |-> t.number, id |-> t.id] >>
            /\ lastCallback' = Callback(t, <<"speak">>)
       ELSE /\ utterance' = utterance
            /\ lastCallback' = Callback(t, <<"sendScreeningNotification">>)
    /\ lastCall' = <<>>
    /\ UNCHANGED <<build, prefs, clock, recording, blockedLog>>
    /\ UNCHANGED ScreenOthers

\* "whisper": stopRecordingAndProcess
StopRecordingAndProcess(t) ==
    LET pk == ServiceKey("whisper", "pending")
    IN  /\ t \in timers
        /\ t.stage = "stopRecordingAndProcess"
        /\ timers' = timers \ {t}
        /\ IF recording # <<>>
           THEN /\ recording' = <<>>
                /\ prefs' = PrefPut(prefs, pk, Append(PrefGet(prefs, pk, <<>>),
                       [phone_number |-> t.number, timestamp |-> clock,
                        status |-> "pending_transcription", recording_path |-> recording]))
                /\ lastCallback' = Callback(t, <<"stop", "endCall", "savePendingScreening",
                                                 "sendScreeningNotification">>)
           ELSE /\ recording' = recording
                /\ prefs' = prefs
                /\ lastCallback' = Callback(t, <<>>)
        /\ lastCall' = <<>>
        /\ UNCHANGED <<build, clock, utterance, blockedLog>>
        /\ UNCHANGED ScreenOthers

\* UtteranceProgressListener of "tts": onStart, onDone, onError
TtsProgress(event) ==
    LET pk == ServiceKey("tts", "pending")
        u == utterance[1]
        status == CASE event = "onStart" -> "speaking"
                    [] event = "onDone" -> "message_delivered"
                    [] event = "onError" -> "tts_error"
    IN  /\ build.service = "tts"
        /\ utterance # <<>>
        /\ prefs' = PrefPut(prefs, pk,
               updatePendingScreening(PrefGet(prefs, pk, <<>>), u.number, status))
        /\ utterance' = IF event = "onStart" THEN utterance ELSE <<>>
        /\ lastCallback' = << [stage |-> event, number |-> u.number,
                               effects |-> IF event = "onStart"
                                           THEN <<"updatePendingScreening">>
                                           ELSE <<"updatePendingScreening", "releaseAudioFocus",
                                                  "showNotification">>] >>
        /\ lastCall' = <<>>
        /\ UNCHANGED <<build, clock, timers, recording, blockedLog>>
        /\ UNCHANGED ScreenOthers

\* UtteranceProgressListener of "whisper": onDone posts startRecording, onError notifies
WhisperProgress(event, recorderStarts) ==
    LET u == utterance[1]
    IN  /\ build.service = "whisper"
        /\ utterance # <<>>
        /\ utterance' = <<>>
        /\ IF event = "onDone" /\ recorderStarts
           THEN /\ recording' = <<u.id>>
                /\ timers' = timers \cup {[number |-> u.number, id |-> u.id,
                                            stage |-> "stopRecordingAndProcess"]}
                /\ lastCallback' = << [stage |-> "startRecording", number |-> u.number,
                                       effects |-> <<"start", "postDelayed">>] >>
           ELSE /\ recording' = recording
                /\ timers' = timers
                /\ lastCallback' = << [stage |-> IF event = "onDone" THEN "startRecording"
                                                 ELSE "onError",
                                       number |-> u.number,
                                       effects |-> IF event = "onDone"
                                                   THEN <<"sendScreeningNotification", "endCall">>
                                                   ELSE <<"sendScreeningNotification">>] >>
        /\ lastCall' = <<>>
        /\ UNCHANGED <<build, prefs, clock, blockedLog>>
        /\ UNCHANGED ScreenOthers

-----------------------------------------------------------------------------
(* The native module, called from the application                          *)

ModuleWrites(newPrefs) ==
    /\ prefs' = newPrefs
    /\ lastCall' = <<>>
    /\ lastCallback' = <<>>
    /\ UNCHANGED <<build, clock, timers, utterance, recording, blockedLog>>
    /\ UNCHANGED ScreenOthers

UpdateBlockedNumbers(numbers) ==
    ModuleWrites(updateBlockedNumbers(build.module, prefs, numbers))

SetAutoBlockEnabled(enabled) ==
    ModuleWrites(setAutoBlockEnabled(build.module, prefs, enabled))

SetBlockUnknownNumbers(enabled) ==
    ModuleWrites(setBlockUnknownNumbers(build.module, prefs, enabled))

SetAIScreeningEnabled(enabled) ==
    /\ HasAIOperations(build.module)
    /\ ModuleWrites(setAIScreeningEnabled(build.module, prefs, enabled))

ClearPendingScreenings ==
    /\ HasAIOperations(build.module)
    /\ ModuleWrites(clearPendingScreenings(build.module, prefs))

ClearBlockedCallHistory ==
    /\ prefs' = clearBlockedCallHistory(build.module, prefs)
    /\ blockedLog' = <<>>
    /\ lastCall' = <<>>
    /\ lastCallback' = <<>>
    /\ UNCHANGED <<build, clock, timers, utterance, recording>>
    /\ UNCHANGED ScreenOthers

-----------------------------------------------------------------------------
(* The screening model                                                     *)

MaxCalls == 2

ScreenInit ==
    /\ build \in Builds
    /\ prefs = NoPrefs
    /\ clock = 0
    /\ lastCall = <<>>
    /\ timers = {}
    /\ utterance = <<>>
    /\ recording = <<>>
    /\ lastCallback = <<>>
    /\ blockedLog = <<>>

ScreenIdle ==
    /\ build = [service |-> "tts", module |-> "role"]
    /\ prefs = NoPrefs
    /\ clock = 0
    /\ lastCall = <<>>
    /\ timers = {}
    /\ utterance = <<>>
    /\ recording = <<>>
    /\ lastCallback = <<>>
    /\ blockedLog = <<>>

OnScreenCall ==
    \E phoneNumber \in CallerNumbers, lookupFails \in BOOLEAN :
        /\ clock < MaxCalls
        /\ lookupFails => build.service = "tts"
        /\ OnScreenCallOf(phoneNumber, lookupFails)

DelayedCallback ==
    \E t \in timers, ok \in BOOLEAN :
        \/ PerformAIScreeningWithAudio(t, ok)
        \/ StartAIScreening(t, ok)
        \/ PlayGreetingAndRecord(t, ok)
        \/ StopRecordingAndProcess(t)

SpeechCallback ==
    \/ \E event \in {"onStart", "onDone", "onError"} : TtsProgress(event)
    \/ \E event \in {"onDone", "onError"}, ok \in BOOLEAN : WhisperProgress(event, ok)

ModuleCall ==
    \/ \E numbers \in StoredLists : UpdateBlockedNumbers(numbers)
    \/ \E enabled \in BOOLEAN : SetAutoBlockEnabled(enabled)
    \/ \E enabled \in BOOLEAN : SetBlockUnknownNumbers(enabled)
    \/ \E enabled \in BOOLEAN : SetAIScreeningEnabled(enabled)
    \/ ClearPendingScreenings
    \/ ClearBlockedCallHistory

Next == OnScreenCall \/ DelayedCallback \/ SpeechCallback \/ ModuleCall

-----------------------------------------------------------------------------
(* The CallBlocker wrapper (JavaScript)                                    *)

Wrappers == {"basic", "full"}
Platforms == {"android", "ios", "web"}

BasicOps ==
    { "isCallScreeningServiceEnabled", "requestCallScreeningRole", "updateBlockedNumbers",
      "setAutoBlockEnabled", "setBlockUnknownNumbers", "getBlockedCallHistory",
      "clearBlockedCallHistory", "getSettings" }
AIOps ==
    { "setAIScreeningEnabled", "isAIScreeningEnabled", "setAIScreeningDelay",
      "getAIScreeningDelay", "getPendingScreenings", "clearPendingScreenings" }

\* The promise-returning operations of each wrapper version
AsyncOps(w) == IF w = "full" THEN BasicOps \cup AIOps ELSE BasicOps

\* A mutant of OnAndroid: the platform is not looked at
OnAndroidAlways(os) == TRUE

\* Platform.OS === 'android'
OnAndroid(os) == os = "android"

\* What an operation returns when Platform.OS !== 'android'
NotAndroidValue(op) ==
    CASE op \in {"getPendingScreenings", "getBlockedCallHistory"} -> "[]"
      [] op = "getSettings" -> "null"
      [] op = "getAIScreeningDelay" -> "3"
      [] OTHER -> "false"

\* A mutant of CatchOutcome: the catch block throws the error again
CatchOutcomeRethrow(op) == [how |-> "rejected", value |-> "error"]

\* What the catch block of an operation does
CatchOutcome(op) ==
    [ how |-> "resolved",
      value |-> CASE op \in {"getPendingScreenings", "getBlockedCallHistory"} -> "[]"
                  [] op = "getSettings" -> "null"
                  [] op = "getAIScreeningDelay" -> "3"
                  [] OTHER -> "false" ]

\* What the native module may resolve an operation with
NativeValues(op) ==
    CASE op \in {"getPendingScreenings", "getBlockedCallHistory"} -> {"[]", "[items]"}
      [] op = "getSettings" -> {"{settings}"}
      [] op = "getAIScreeningDelay" -> {"1", "3"}
      [] OTHER -> {"true", "false"}

WrapperInit ==
    /\ wrapper \in Wrappers
    /\ platform \in Platforms
    /\ pending = <<>>
    /\ settled = <<>>
    /\ nativeCalls = 0

WrapperIdle ==
    /\ wrapper = "full"
    /\ platform = "android"
    /\ pending = <<>>
    /\ settled = <<>>
    /\ nativeCalls = 0

\* CallBlocker.isSupported()
IsSupported ==
    /\ pending = <<>>
    /\ settled' = << [op |-> "isSupported", how |-> "returned", native |-> "none",
                      value |-> IF OnAndroid(platform) THEN "true" ELSE "false"] >>
    /\ nativeCalls' = 0
    /\ UNCHANGED <<wrapper, platform, pending>>
    /\ UNCHANGED WrapperOthers

\* An operation up to its first await: the platform test, then the native call
WrapperCall(op) ==
    /\ pending = <<>>
    /\ op \in AsyncOps(wrapper)
    /\ IF OnAndroid(platform)
       THEN /\ pending' = <<op>>
            /\ settled' = <<>>
            /\ nativeCalls' = 1
       ELSE /\ pending' = <<>>
            /\ settled' = << [op |-> op, how |-> "resolved", native |-> "none",
                              value |-> NotAndroidValue(op)] >>
            /\ nativeCalls' = 0
    /\ UNCHANGED <<wrapper, platform>>
    /\ UNCHANGED WrapperOthers

\* The native promise resolves
NativeResolves(value) ==
    /\ pending # <<>>
    /\ value \in NativeValues(pending[1])
    /\ settled' = << [op |-> pending[1], how |-> "resolved", native |-> "resolves",
                      value |-> value] >>
    /\ pending' = <<>>
    /\ UNCHANGED <<wrapper, platform, nativeCalls>>
    /\ UNCHANGED WrapperOthers

\* The native promise rejects, or the call into the native module throws
NativeFails(failure) ==
    /\ pending # <<>>
    /\ settled' = << [op |-> pending[1], how |-> CatchOutcome(pending[1]).how,
                      native |-> failure, value |-> CatchOutcome(pending[1]).value] >>
    /\ pending' = <<>>
    /\ UNCHANGED <<wrapper, platform, nativeCalls>>
    /\ UNCHANGED WrapperOthers

WrapperNext ==
    \/ IsSupported
    \/ \E op \in BasicOps \cup AIOps : WrapperCall(op)
    \/ \E value \in {"true", "false", "[]", "[items]", "{settings}", "1", "3"} :
          NativeResolves(value)
    \/ \E failure \in {"rejects", "throws"} : NativeFails(failure)

-----------------------------------------------------------------------------
(* The settings screen (settings.tsx): the auto-block switch               *)

MaxToggles == 2

SettingsInit ==
    /\ server \in BOOLEAN
    /\ shown = TRUE
    /\ toggles = {}
    /\ started = 0
    /\ completed = {}

SettingsIdle ==
    /\ server = TRUE
    /\ shown = TRUE
    /\ toggles = {}
    /\ started = 0
    /\ completed = {}

\* What a step of the screen leaves alone besides the preferences
ScreenKeeps ==
    /\ UNCHANGED <<build, clock, lastCall, timers, utterance, recording, lastCallback,
                   blockedLog>>
    /\ UNCHANGED wrapperVars
    /\ UNCHANGED SettingsOthers

Returned(t, ok, native) ==
    [id |-> t.id, value |-> t.value, ok |-> ok, native |-> native]

\* fetchSettings: GET /api/settings
FetchSettings(outcome) ==
    /\ shown' = IF outcome = "ok" THEN server ELSE shown
    /\ UNCHANGED <<server, toggles, started, completed, prefs>>
    /\ ScreenKeeps

\* updateSetting('auto_block_spam', value) up to the await of the PUT
UpdateSetting(value) ==
    /\ started < MaxToggles
    /\ value = ~shown
    /\ shown' = value
    /\ started' = started + 1
    /\ toggles' = toggles \cup {[id |-> started + 1, value |-> value,
                                  previousValue |-> shown, pc |-> "put"]}
    /\ UNCHANGED <<server, completed, prefs>>
    /\ ScreenKeeps

\* The backend handles PUT /api/settings, the requests in the order they were sent
BackendPut(t, outcome) ==
    /\ t \in toggles
    /\ t.pc = "put"
    /\ \A u \in toggles : u.pc = "put" => t.id <= u.id
    /\ server' = IF outcome = "ok" THEN t.value ELSE server
    /\ toggles' = (toggles \ {t}) \cup {[t EXCEPT !.pc = outcome]}
    /\ UNCHANGED <<shown, started, completed, prefs>>
    /\ ScreenKeeps

\* A mutant of PutFails: the switch keeps the value of the toggle
PutFailsKeepsValue(t) ==
    /\ t \in toggles
    /\ t.pc \in {"notok", "throw"}
    /\ toggles' = toggles \ {t}
    /\ completed' = completed \cup {Returned(t, FALSE, "none")}
    /\ UNCHANGED <<server, shown, started, prefs>>
    /\ ScreenKeeps

\* updateSetting after the PUT was refused or threw: the switch is put back
PutFails(t) ==
    /\ t \in toggles
    /\ t.pc \in {"notok", "throw"}
    /\ shown' = t.previousValue
    /\ toggles' = toggles \ {t}
    /\ completed' = completed \cup {Returned(t, FALSE, "none")}
    /\ UNCHANGED <<server, started, prefs>>
    /\ ScreenKeeps

\* updateSetting after the PUT was accepted: CallBlocker.setAutoBlockEnabled(value)
PutAccepted(t, native) ==
    /\ t \in toggles
    /\ t.pc = "ok"
    /\ IF ~OnAndroid(platform)
       THEN /\ native = "none"
            /\ toggles' = toggles \ {t}
            /\ completed' = completed \cup {Returned(t, TRUE, "none")}
            /\ UNCHANGED <<shown, prefs>>
       ELSE /\ native \in {"resolves", "rejects", "throws"}
            /\ prefs' = IF native = "resolves"
                        THEN setAutoBlockEnabled(build.module, prefs, t.value)
                        ELSE prefs
            /\ IF native = "resolves" \/ CatchOutcome("setAutoBlockEnabled").how = "resolved"
               THEN /\ toggles' = (toggles \ {t})
                                     \cup {[id |-> t.id, value |-> t.value,
                                            previousValue |-> t.previousValue,
                                            pc |-> "native", native |-> native]}
                    /\ UNCHANGED <<shown, completed>>
               ELSE /\ shown' = t.previousValue
                    /\ toggles' = toggles \ {t}
                    /\ completed' = completed \cup {Returned(t, FALSE, native)}
    /\ UNCHANGED <<server, started>>
    /\ ScreenKeeps

\* updateSetting after the native call: syncSpamNumbersToNative when value is true
NativeReturns(t) ==
    /\ t \in toggles
    /\ t.pc = "native"
    /\ IF t.value
       THEN /\ toggles' = (toggles \ {t}) \cup {[t EXCEPT !.pc = "sync"]}
            /\ UNCHANGED completed
       ELSE /\ toggles' = toggles \ {t}
            /\ completed' = completed \cup {Returned(t, TRUE, t.native)}
    /\ UNCHANGED <<server, shown, started, prefs>>
    /\ ScreenKeeps

\* syncSpamNumbersToNative: GET /api/spam-numbers, then updateBlockedNumbers
SyncReturns(t, outcome, numbers) ==
    /\ t \in toggles
    /\ t.pc = "sync"
    /\ prefs' = IF outcome = "ok"
                THEN updateBlockedNumbers(build.module, prefs, numbers)
                ELSE prefs
    /\ toggles' = toggles \ {t}
    /\ completed' = completed \cup {Returned(t, TRUE, t.native)}
    /\ UNCHANGED <<server, shown, started>>
    /\ ScreenKeeps

SettingsNext ==
    \/ \E outcome \in {"ok", "notok", "throw"} : FetchSettings(outcome)
    \/ \E value \in BOOLEAN : UpdateSetting(value)
    \/ \E t \in toggles, outcome \in {"ok", "notok", "throw"} : BackendPut(t, outcome)
    \/ \E t \in toggles : PutFails(t)
    \/ \E t \in toggles, native \in {"none", "resolves", "rejects", "throws"} :
          PutAccepted(t, native)
    \/ \E t \in toggles : NativeReturns(t)
    \/ \E t \in toggles, outcome \in {"ok", "throw"}, numbers \in StoredLists :
          SyncReturns(t, outcome, numbers)

-----------------------------------------------------------------------------
(* The functions of the client that make HTTP requests                     *)

SessionFunctions == {"exchangeSessionId", "checkExistingSession", "logout", "refreshUser"}
ScreenFunctions ==
    { "fetchSettings", "fetchSignalSpamStatus", "syncSpamNumbersToNative", "updateSetting",
      "syncUserData", "fetchData", "addNumber", "addCategory", "removeNumber",
      "fetchCalls", "deleteCall", "clearHistory" }
WhisperFunctions == {"transcribeAudio", "extractCallerInfo", "processCallerAudio"}

NetFunctions == SessionFunctions \cup ScreenFunctions \cup WhisperFunctions

\* How a request can end: an ok answer, an error answer, a network failure, a body
\* that does not parse; for the transcription also an ok answer with an empty text or
\* with a text of white space
NetOutcomes(fn) ==
    IF fn = "transcribeAudio" THEN {"ok", "empty", "blank", "notok", "throw", "badbody"}
    ELSE {"ok", "notok", "throw", "badbody"}

\* The function a function awaits first
FirstCallee(fn) ==
    CASE fn = "processCallerAudio" -> "transcribeAudio"
      [] fn = "refreshUser" -> "checkExistingSession"
      [] OTHER -> fn

\* The functions that read the session token and make no request without one
NeedsToken(fn) == fn \in {"checkExistingSession", "logout", "refreshUser"}

\* A mutant of NetSettle: every catch block throws the error again
NetSettleRethrow(fn, outcome) ==
    IF outcome \in {"ok", "empty", "blank"}
    THEN [how |-> "resolved", value |-> "value"]
    ELSE [how |-> "rejected", value |-> "error"]

\* How a function ends when its request ended with outcome
NetSettle(fn, outcome) ==
    CASE fn = "exchangeSessionId" ->
           [how |-> "resolved", value |-> IF outcome = "ok" THEN "true" ELSE "false"]
      [] fn = "checkExistingSession" ->
           [how |-> "resolved", value |-> IF outcome = "ok" THEN "true" ELSE "false"]
      [] fn = "transcribeAudio" ->
           CASE outcome = "ok" -> [how |-> "resolved", value |-> "text"]
             [] outcome = "empty" -> [how |-> "resolved", value |-> ""]
             [] outcome = "blank" -> [how |-> "resolved", value |-> " "]
             [] OTHER -> [how |-> "rejected", value |-> "error"]
      [] fn = "extractCallerInfo" ->
           [how |-> "resolved", value |-> IF outcome = "ok" THEN "info" ELSE "Inconnu"]
      [] OTHER -> [how |-> "resolved", value |-> "undefined"]

\* String.trim()
Trim(text) == IF text = " " THEN "" ELSE text

\* A mutant of AfterCallee: the extraction follows the transcription whatever it gave
AfterCalleeAlwaysExtracts(fn, callee, r) ==
    CASE fn = "processCallerAudio" /\ callee = "transcribeAudio" ->
           [then |-> "call", how |-> "none", value |-> "extractCallerInfo"]
      [] fn = "processCallerAudio" ->
           [then |-> "settle", how |-> "resolved", value |-> r.value]
      [] OTHER ->
           [then |-> "settle", how |-> r.how,
            value |-> IF r.how = "resolved" THEN "undefined" ELSE r.value]

\* What the awaiting function does when the function it awaits has ended
AfterCallee(fn, callee, r) ==
    CASE fn = "processCallerAudio" /\ r.how = "rejected" ->
           [then |-> "settle", how |-> "resolved", value |-> "Erreur"]
      [] fn = "processCallerAudio" /\ callee = "transcribeAudio" /\ Trim(r.value) = "" ->
           [then |-> "settle", how |-> "resolved", value |-> "Aucun message"]
      [] fn = "processCallerAudio" /\ callee = "transcribeAudio" ->
           [then |-> "call", how |-> "none", value |-> "extractCallerInfo"]
      [] fn = "processCallerAudio" ->
           [then |-> "settle", how |-> "resolved", value |-> r.value]
      [] OTHER ->
           [then |-> "settle", how |-> r.how,
            value |-> IF r.how = "resolved" THEN "undefined" ELSE r.value]

NetInit ==
    /\ netStack = <<>>
    /\ netSettled = {}
    /\ netRequests = 0

Ended(fn, r, cause) == [fn |-> fn, how |-> r.how, value |-> r.value, cause |-> cause]

\* A function is called; it runs up to its first request
NetCall(fn, hasToken) ==
    /\ netStack = <<>>
    /\ IF NeedsToken(fn) /\ ~hasToken
       THEN /\ netStack' = <<>>
            /\ netRequests' = 0
            /\ netSettled' =
                  { Ended(fn, [how |-> "resolved",
                               value |-> IF fn = "checkExistingSession" THEN "false"
                                         ELSE "undefined"], "no token") }
       ELSE /\ netStack' = IF FirstCallee(fn) = fn THEN <<fn>> ELSE <<fn, FirstCallee(fn)>>
            /\ netRequests' = 1
            /\ netSettled' = {}
    /\ UNCHANGED NetOthers

\* The request in flight ends; the function that made it ends, and the one awaiting it
\* goes on to its end or to its next request
NetResponse(outcome) ==
    /\ netStack # <<>>
    /\ LET fn == netStack[Len(netStack)]
           r == NetSettle(fn, outcome)
       IN  /\ outcome \in NetOutcomes(fn)
           /\ IF Len(netStack) = 1
              THEN /\ netStack' = <<>>
                   /\ netSettled' = netSettled \cup {Ended(fn, r, outcome)}
                   /\ netRequests' = netRequests
              ELSE LET caller == netStack[1]
                       next == AfterCallee(caller, fn, r)
                   IN  IF next.then = "call"
                       THEN /\ netStack' = <<caller, next.value>>
                            /\ netSettled' = netSettled \cup {Ended(fn, r, outcome)}
                            /\ netRequests' = netRequests + 1
                       ELSE /\ netStack' = <<>>
                            /\ netSettled' = netSettled
                                   \cup {Ended(fn, r, outcome), Ended(caller, next, outcome)}
                            /\ netRequests' = netRequests
    /\ UNCHANGED NetOthers

NetNext ==
    \/ \E fn \in NetFunctions, hasToken \in BOOLEAN : NetCall(fn, hasToken)
    \/ \E outcome \in {"ok", "empty", "blank", "notok", "throw", "badbody"} :
          NetResponse(outcome)

-----------------------------------------------------------------------------
(* Long runs of blocked calls: one listed caller, the history and its clears *)

MaxBlockedCalls == 102

HistoryInit ==
    /\ build \in Builds
    /\ prefs = updateBlockedNumbers(build.module, NoPrefs, <<National(SubscriberA)>>)
    /\ clock = 0
    /\ lastCall = <<>>
    /\ timers = {}
    /\ utterance = <<>>
    /\ recording = <<>>
    /\ lastCallback = <<>>
    /\ blockedLog = <<>>

BlockedCall ==
    /\ clock < MaxBlockedCalls
    /\ OnScreenCallOf(National(SubscriberA), FALSE)

HistoryNext == BlockedCall \/ ClearBlockedCallHistory

-----------------------------------------------------------------------------
(* The in-call screen: StopPubInCallService and InCallActivity             *)

MaxInCalls == 2

InCallInit ==
    /\ icCurrent = <<>>
    /\ icCalls = 0
    /\ icActs = <<>>
    /\ icTimers = {}
    /\ icAnswers = <<>>
    /\ icGreeted = {}

\* InCallActivity.onCreate: the test that decides whether AI screening is scheduled
screeningWanted(isIncoming, aiScreeningEnabled, phoneNumber, blockedNumbers, lookupFails) ==
    /\ isIncoming
    /\ aiScreeningEnabled
    /\ ~isNumberInContacts(phoneNumber, lookupFails)
    /\ ~isNumberBlockedInCall(phoneNumber, blockedNumbers)

\* StopPubInCallService.onCallAdded, then InCallActivity.onCreate for that call
OnCallAdded(phoneNumber, aiScreeningEnabled, blockedNumbers, lookupFails) ==
    /\ icCalls < MaxInCalls
    /\ icCurrent = <<>>
    /\ icCalls' = icCalls + 1
    /\ icCurrent' = << [id |-> icCalls + 1, number |-> phoneNumber, state |-> "RINGING"] >>
    /\ icActs' = Append(icActs, [aiAnsweredCall |-> FALSE, aiScreeningPerformed |-> FALSE])
    /\ icTimers' =
          IF screeningWanted(TRUE, aiScreeningEnabled, phoneNumber, blockedNumbers,
                             lookupFails)
          THEN icTimers \cup {[kind |-> "answer", owner |-> icCalls + 1]}
          ELSE icTimers
    /\ UNCHANGED <<icAnswers, icGreeted>>
    /\ UNCHANGED InCallOthers

\* StopPubInCallService.answerCall: currentCall?.let { it.answer(...) }
answerCall(by, owner) ==
    IF icCurrent = <<>>
    THEN icAnswers
    ELSE Append(icAnswers, [call |-> icCurrent[1].id, by |-> by, owner |-> owner,
                            state |-> icCurrent[1].state])

\* The user taps the answer button of the screen of the current call
TapAnswer ==
    /\ icCurrent # <<>>
    /\ icCurrent[1].state = "RINGING"
    /\ \A i \in DOMAIN icAnswers :
          ~(icAnswers[i].call = icCurrent[1].id /\ icAnswers[i].by = "user")
    /\ icAnswers' = answerCall("user", icCurrent[1].id)
    /\ UNCHANGED <<icCurrent, icCalls, icActs, icTimers, icGreeted>>
    /\ UNCHANGED InCallOthers

\* StopPubInCallService.currentCall?.state == Call.STATE_RINGING
RingingNow == icCurrent # <<>> /\ icCurrent[1].state = "RINGING"

\* The callback posted by scheduleAIScreening runs
AutoAnswerFires(t) ==
    /\ t \in icTimers
    /\ t.kind = "answer"
    /\ icTimers' = icTimers \ {t}
    /\ IF RingingNow
       THEN /\ icActs' = [icActs EXCEPT ![t.owner].aiAnsweredCall = TRUE]
            /\ icAnswers' = answerCall("timer", t.owner)
       ELSE UNCHANGED <<icActs, icAnswers>>
    /\ UNCHANGED <<icCurrent, icCalls, icGreeted>>
    /\ UNCHANGED InCallOthers

\* Telecom makes the answered call active: callCallback.onStateChanged broadcasts
\* CALL_STATE_CHANGED and the screen of the call runs updateUIForState(STATE_ACTIVE)
OnStateChangedActive ==
    /\ icCurrent # <<>>
    /\ icCurrent[1].state = "RINGING"
    /\ \E i \in DOMAIN icAnswers : icAnswers[i].call = icCurrent[1].id
    /\ icCurrent' = << [icCurrent[1] EXCEPT !.state = "ACTIVE"] >>
    /\ LET a == icActs[icCurrent[1].id]
       IN  icTimers' = IF a.aiAnsweredCall /\ ~a.aiScreeningPerformed
                       THEN icTimers \cup {[kind |-> "greet", owner |-> icCurrent[1].id]}
                       ELSE icTimers
    /\ UNCHANGED <<icCalls, icActs, icAnswers, icGreeted>>
    /\ UNCHANGED InCallOthers

\* The callback posted by updateUIForState runs: performAIScreening
PerformAIScreening(t) ==
    /\ t \in icTimers
    /\ t.kind = "greet"
    /\ icTimers' = icTimers \ {t}
    /\ IF icActs[t.owner].aiScreeningPerformed
       THEN UNCHANGED <<icActs, icGreeted>>
       ELSE /\ icActs' = [icActs EXCEPT ![t.owner].aiScreeningPerformed = TRUE]
            /\ icGreeted' = icGreeted \cup {t.owner}
    /\ UNCHANGED <<icCurrent, icCalls, icAnswers>>
    /\ UNCHANGED InCallOthers

\* The call ends (hang-up, reject, caller gone): StopPubInCallService.onCallRemoved
\* clears currentCall and broadcasts CALL_ENDED; the screen finishes.  Nothing
\* removes the callbacks already posted.
OnCallRemoved ==
    /\ icCurrent # <<>>
    /\ icCurrent' = <<>>
    /\ UNCHANGED <<icCalls, icActs, icTimers, icAnswers, icGreeted>>
    /\ UNCHANGED InCallOthers

InCallNext ==
    \/ \E phoneNumber \in CallerNumbers, aiScreeningEnabled \in BOOLEAN,
          blockedNumbers \in StoredLists, lookupFails \in BOOLEAN :
          OnCallAdded(phoneNumber, aiScreeningEnabled, blockedNumbers, lookupFails)
    \/ TapAnswer
    \/ \E t \in icTimers : AutoAnswerFires(t)
    \/ OnStateChangedActive
    \/ \E t \in icTimers : PerformAIScreening(t)
    \/ OnCallRemoved

-----------------------------------------------------------------------------
(* The blocked-numbers screen (blocked.tsx): fetchData and addNumber       *)

MaxFetches == 4
MaxAdds == 1

\* selectedCategory and searchQuery: nothing selected, or some category or text
Filters == {"none", "some"}

\* The screen as mounted: the effect of the first render has called fetchData
BlockedInit ==
    /\ bFilter = "none"
    /\ bShown = <<>>
    /\ bFetches = {[id |-> 1, filter |-> "none", pc |-> "sent", version |-> 0]}
    /\ bAdds = {}
    /\ bBackend = 0
    /\ bStarted = 1
    /\ bGetFailed = FALSE

BlockedIdle ==
    /\ bFilter = "none"
    /\ bShown = <<>>
    /\ bFetches = {}
    /\ bAdds = {}
    /\ bBackend = 0
    /\ bStarted = 0
    /\ bGetFailed = FALSE

\* fetchData of the render whose filter is `filter`, up to the await of its requests
fetchData(filter) ==
    bFetches \cup {[id |-> bStarted + 1, filter |-> filter, pc |-> "sent", version |-> 0]}

\* The user selects a category or edits the search text: the effect calls fetchData.
\* The add dialog covers the filters while an addNumber is running.
ChangeFilter(filter) ==
    /\ bStarted < MaxFetches
    /\ bAdds = {}
    /\ filter # bFilter
    /\ bFilter' = filter
    /\ bFetches' = fetchData(filter)
    /\ bStarted' = bStarted + 1
    /\ UNCHANGED <<bShown, bAdds, bBackend, bGetFailed>>
    /\ UNCHANGED BlockedOthers

\* addNumber up to the await of POST /api/spam-numbers; the category of the new number
\* is picked among the categories a fetchData has loaded
AddNumber(filled) ==
    /\ bAdds = {}
    /\ bBackend < MaxAdds
    /\ bShown # <<>>
    /\ bAdds' = IF filled THEN {[filter |-> bFilter, pc |-> "post"]} ELSE bAdds
    /\ UNCHANGED <<bFilter, bShown, bFetches, bBackend, bStarted, bGetFailed>>
    /\ UNCHANGED BlockedOthers

\* The backend handles POST /api/spam-numbers
BackendPost(a, outcome) ==
    /\ a \in bAdds
    /\ a.pc = "post"
    /\ bBackend' = IF outcome = "ok" THEN bBackend + 1 ELSE bBackend
    /\ bAdds' = {[a EXCEPT !.pc = outcome]}
    /\ UNCHANGED <<bFilter, bShown, bFetches, bStarted, bGetFailed>>
    /\ UNCHANGED BlockedOthers

\* addNumber after the POST: fetchData() when res.ok, an alert otherwise
AddReturns(a) ==
    /\ a \in bAdds
    /\ a.pc # "post"
    /\ bStarted < MaxFetches
    /\ bAdds' = {}
    /\ IF a.pc = "ok"
       THEN bFetches' = fetchData(a.filter) /\ bStarted' = bStarted + 1
       ELSE UNCHANGED <<bFetches, bStarted>>
    /\ UNCHANGED <<bFilter, bShown, bBackend, bGetFailed>>
    /\ UNCHANGED BlockedOthers

\* The backend handles GET /api/spam-numbers of a fetchData: the list for that filter
\* as it is now
BackendGet(f, outcome) ==
    /\ f \in bFetches
    /\ f.pc = "sent"
    /\ bFetches' = (bFetches \ {f}) \cup {[f EXCEPT !.pc = outcome, !.version = bBackend]}
    /\ UNCHANGED <<bFilter, bShown, bAdds, bBackend, bStarted, bGetFailed>>
    /\ UNCHANGED BlockedOthers

\* fetchData after Promise.all: setSpamNumbers when numbersRes.ok
FetchReturns(f) ==
    /\ f \in bFetches
    /\ f.pc # "sent"
    /\ bFetches' = bFetches \ {f}
    /\ bShown' = IF f.pc = "ok" THEN << [filter |-> f.filter, version |-> f.version] >>
                 ELSE bShown
    /\ bGetFailed' = (bGetFailed \/ f.pc # "ok")
    /\ UNCHANGED <<bFilter, bAdds, bBackend, bStarted>>
    /\ UNCHANGED BlockedOthers

BlockedNext ==
    \/ \E filter \in Filters : ChangeFilter(filter)
    \/ \E filled \in BOOLEAN : AddNumber(filled)
    \/ \E a \in bAdds, outcome \in {"ok", "notok", "throw"} : BackendPost(a, outcome)
    \/ \E a \in bAdds : AddReturns(a)
    \/ \E f \in bFetches, outcome \in {"ok", "notok", "throw"} : BackendGet(f, outcome)
    \/ \E f \in bFetches : FetchReturns(f)

-----------------------------------------------------------------------------
(* The settings screen (settings.tsx): checkCallBlockerStatus              *)

\* The operations of the wrapper that the settings screen calls
ScreenOps ==
    { "isCallScreeningServiceEnabled", "isDialerRoleHeld", "isAIScreeningEnabled",
      "updateBlockedNumbers", "setAutoBlockEnabled", "setBlockUnknownNumbers",
      "requestCallScreeningRole", "requestDialerRole", "setAIScreeningEnabled",
      "setAIScreeningDelay" }

\* The operations the check awaits, in order, and the state each one sets
StatusSteps ==
    << [op |-> "isCallScreeningServiceEnabled", sets |-> "callBlockingEnabled"],
       [op |-> "isDialerRoleHeld", sets |-> "isDefaultDialer"],
       [op |-> "isAIScreeningEnabled", sets |-> "aiScreeningEnabled"] >>

StatusFlags == {"callBlockingEnabled", "isDefaultDialer", "aiScreeningEnabled"}

\* Whether the CallBlocker object of a wrapper version has the operation
WrapperProvides(w, op) == op \in AsyncOps(w) \cup {"isSupported"}

StatusInit ==
    /\ stNative \in [StatusFlags -> BOOLEAN]
    /\ stScreen = [f \in StatusFlags |-> FALSE]
    /\ stPc = 0
    /\ stFailed = FALSE

StatusIdle ==
    /\ stNative = [f \in StatusFlags |-> FALSE]
    /\ stScreen = [f \in StatusFlags |-> FALSE]
    /\ stPc = 0
    /\ stFailed = FALSE

\* checkCallBlockerStatus is called (on mount): nothing happens off Android
CheckCallBlockerStatus ==
    /\ stPc = 0
    /\ stPc' = IF OnAndroid(platform) THEN 1 ELSE Len(StatusSteps) + 1
    /\ UNCHANGED <<stNative, stScreen, stFailed>>
    /\ UNCHANGED StatusOthers

\* One await of the check: the call, its result, the state setter; a call of something
\* the wrapper does not have throws a TypeError, which the catch of the check logs
StatusStep(native) ==
    /\ stPc \in DOMAIN StatusSteps
    /\ LET step == StatusSteps[stPc]
       IN  IF ~WrapperProvides(wrapper, step.op)
           THEN /\ native = "none"
                /\ stPc' = Len(StatusSteps) + 1
                /\ UNCHANGED <<stScreen, stFailed>>
           ELSE /\ native \in {"resolves", "rejects"}
                /\ stFailed' = (stFailed \/ native = "rejects")
                /\ IF native = "resolves"
                   THEN /\ stScreen' = [stScreen EXCEPT ![step.sets] = stNative[step.sets]]
                        /\ stPc' = stPc + 1
                   ELSE IF CatchOutcome(step.op).how = "resolved"
                   THEN /\ stScreen' = [stScreen EXCEPT
                                           ![step.sets] = CatchOutcome(step.op).value = "true"]
                        /\ stPc' = stPc + 1
                   ELSE /\ stPc' = Len(StatusSteps) + 1
                        /\ UNCHANGED stScreen
    /\ UNCHANGED stNative
    /\ UNCHANGED StatusOthers

\* The roles and the flag change on the native side; the screen is mounted again
StatusRemount ==
    /\ stPc = Len(StatusSteps) + 1
    /\ stNative' \in [StatusFlags -> BOOLEAN]
    /\ stNative' # stNative
    /\ stPc' = 0
    /\ stScreen' = [f \in StatusFlags |-> FALSE]
    /\ stFailed' = FALSE
    /\ UNCHANGED StatusOthers

StatusNext ==
    \/ CheckCallBlockerStatus
    \/ \E native \in {"none", "resolves", "rejects"} : StatusStep(native)
    \/ StatusRemount

-----------------------------------------------------------------------------
(* The session (AuthContext.tsx): logout                                   *)

MaxAuthCalls == 3

Tokens == {"t1", "t2"}

\* The provider's isAuthenticated: !!user
isAuthenticated(user) == user # "none"

\* A session that was restored, or none, or a stored token that initAuth has yet to check
AuthInit ==
    /\ \E t \in Tokens \cup {"none"}, restored \in BOOLEAN :
          /\ auStored = t
          /\ auToken = IF restored THEN t ELSE "none"
          /\ auUser = IF restored /\ t # "none" THEN "user" ELSE "none"
    /\ auRuns = {}
    /\ auStarted = 0
    /\ auEnded = {}

AuthIdle ==
    /\ auStored = "none"
    /\ auToken = "none"
    /\ auUser = "none"
    /\ auRuns = {}
    /\ auStarted = 0
    /\ auEnded = {}

\* What logout leaves behind when it ends
Left(r, how) ==
    [id |-> r.id, how |-> how, stored |-> auStored', user |-> auUser', token |-> auToken']

\* logout is called: the POST is sent only with a sessionToken
Logout ==
    /\ auStarted < MaxAuthCalls
    /\ auStarted' = auStarted + 1
    /\ auRuns' = auRuns \cup {[id |-> auStarted + 1, fn |-> "logout",
                               pc |-> IF auToken # "none" THEN "post" ELSE "remove"]}
    /\ UNCHANGED <<auStored, auUser, auToken, auEnded>>
    /\ UNCHANGED AuthOthers

\* The POST /api/auth/logout ends, in whatever way: the finally block is next
LogoutPost(r, outcome) ==
    /\ r \in auRuns
    /\ r.fn = "logout"
    /\ r.pc = "post"
    /\ outcome \in {"ok", "notok", "throw"}
    /\ auRuns' = (auRuns \ {r}) \cup {[r EXCEPT !.pc = "remove"]}
    /\ UNCHANGED <<auStored, auUser, auToken, auStarted, auEnded>>
    /\ UNCHANGED AuthOthers

\* finally: await AsyncStorage.removeItem('session_token'); a rejection leaves the
\* block, and logout rejects
LogoutRemove(r, outcome) ==
    /\ r \in auRuns
    /\ r.fn = "logout"
    /\ r.pc = "remove"
    /\ UNCHANGED <<auUser, auToken, auStarted>>
    /\ IF outcome = "resolves"
       THEN /\ auStored' = "none"
            /\ auRuns' = (auRuns \ {r}) \cup {[r EXCEPT !.pc = "set"]}
            /\ UNCHANGED auEnded
       ELSE /\ UNCHANGED auStored
            /\ auRuns' = auRuns \ {r}
            /\ auEnded' = auEnded \cup {Left(r, "rejected")}
    /\ UNCHANGED AuthOthers

\* finally, after the await: setUser(null); setSessionToken(null)
LogoutSets(r) ==
    /\ r \in auRuns
    /\ r.fn = "logout"
    /\ r.pc = "set"
    /\ auUser' = "none"
    /\ auToken' = "none"
    /\ UNCHANGED <<auStored, auStarted>>
    /\ auRuns' = auRuns \ {r}
    /\ auEnded' = auEnded \cup {Left(r, "resolved")}
    /\ UNCHANGED AuthOthers

\* exchangeSessionId is called (a sign-in link arrives)
ExchangeSessionId ==
    /\ auStarted < MaxAuthCalls
    /\ auStarted' = auStarted + 1
    /\ auRuns' = auRuns \cup {[id |-> auStarted + 1, fn |-> "exchange", pc |-> "post"]}
    /\ UNCHANGED <<auStored, auUser, auToken, auEnded>>
    /\ UNCHANGED AuthOthers

\* exchangeSessionId: the POST /api/auth/session ends, then AsyncStorage.setItem
ExchangeStores(r, outcome, t) ==
    /\ r \in auRuns
    /\ r.fn = "exchange"
    /\ r.pc = "post"
    /\ IF outcome = "ok"
       THEN /\ auStored' = t
            /\ auRuns' = (auRuns \ {r}) \cup {[id |-> r.id, fn |-> "exchange",
                                               pc |-> "set", token |-> t]}
       ELSE /\ UNCHANGED auStored
            /\ auRuns' = auRuns \ {r}
    /\ UNCHANGED <<auUser, auToken, auStarted, auEnded>>
    /\ UNCHANGED AuthOthers

\* exchangeSessionId after the await of setItem: setSessionToken, setUser
ExchangeSets(r) ==
    /\ r \in auRuns
    /\ r.fn = "exchange"
    /\ r.pc = "set"
    /\ auToken' = r.token
    /\ auUser' = "user"
    /\ auRuns' = auRuns \ {r}
    /\ UNCHANGED <<auStored, auStarted, auEnded>>
    /\ UNCHANGED AuthOthers

\* checkExistingSession is called: by initAuth at start-up, or by refreshUser, which
\* calls it only with a sessionToken
CheckExistingSession(from) ==
    /\ auStarted < MaxAuthCalls
    /\ IF from = "refreshUser"
       THEN auToken # "none"
       ELSE auStarted = 0 /\ auToken = "none" /\ auUser = "none"
    /\ auStarted' = auStarted + 1
    /\ auRuns' = auRuns \cup {[id |-> auStarted + 1, fn |-> "check", pc |-> "getItem"]}
    /\ UNCHANGED <<auStored, auUser, auToken, auEnded>>
    /\ UNCHANGED AuthOthers

\* checkExistingSession: AsyncStorage.getItem('session_token'); without a token, or
\* when the read rejects, it returns false
CheckGetItem(r, outcome) ==
    /\ r \in auRuns
    /\ r.fn = "check"
    /\ r.pc = "getItem"
    /\ auRuns' = IF outcome = "resolves" /\ auStored # "none"
                 THEN (auRuns \ {r}) \cup {[id |-> r.id, fn |-> "check", pc |-> "me",
                                             token |-> auStored]}
                 ELSE auRuns \ {r}
    /\ UNCHANGED <<auStored, auUser, auToken, auStarted, auEnded>>
    /\ UNCHANGED AuthOthers

\* checkExistingSession: GET /api/auth/me answers; ok sets user and sessionToken, a
\* non-ok answer leads to removeItem, a failure is logged
CheckMe(r, outcome) ==
    /\ r \in auRuns
    /\ r.fn = "check"
    /\ r.pc = "me"
    /\ IF outcome = "ok"
       THEN /\ auUser' = "user"
            /\ auToken' = r.token
            /\ auRuns' = auRuns \ {r}
       ELSE /\ UNCHANGED <<auUser, auToken>>
            /\ auRuns' = IF outcome = "notok"
                         THEN (auRuns \ {r}) \cup {[r EXCEPT !.pc = "remove"]}
                         ELSE auRuns \ {r}
    /\ UNCHANGED <<auStored, auStarted, auEnded>>
    /\ UNCHANGED AuthOthers

\* checkExistingSession: await AsyncStorage.removeItem('session_token'), return false
CheckRemove(r, outcome) ==
    /\ r \in auRuns
    /\ r.fn = "check"
    /\ r.pc = "remove"
    /\ auStored' = IF outcome = "resolves" THEN "none" ELSE auStored
    /\ auRuns' = auRuns \ {r}
    /\ UNCHANGED <<auUser, auToken, auStarted, auEnded>>
    /\ UNCHANGED AuthOthers

AuthNext ==
    \/ \E from \in {"initAuth", "refreshUser"} : CheckExistingSession(from)
    \/ \E r \in auRuns, outcome \in {"resolves", "rejects"} : CheckGetItem(r, outcome)
    \/ \E r \in auRuns, outcome \in {"ok", "notok", "throw"} : CheckMe(r, outcome)
    \/ \E r \in auRuns, outcome \in {"resolves", "rejects"} : CheckRemove(r, outcome)
    \/ Logout
    \/ \E r \in auRuns, outcome \in {"ok", "notok", "throw"} : LogoutPost(r, outcome)
    \/ \E r \in auRuns, outcome \in {"resolves", "rejects"} : LogoutRemove(r, outcome)
    \/ \E r \in auRuns : LogoutSets(r)
    \/ ExchangeSessionId
    \/ \E r \in auRuns, outcome \in {"ok", "notok", "throw"}, t \in Tokens :
          ExchangeStores(r, outcome, t)
    \/ \E r \in auRuns : ExchangeSets(r)

-----------------------------------------------------------------------------
(* The native module (CallBlockerModule.kt 240-562): the role requests     *)

MaxRoleRequests == 3

Roles == {"ROLE_CALL_SCREENING", "ROLE_DIALER"}

\* REQUEST_CODE_CALL_SCREENING, REQUEST_CODE_DIALER
RequestCode(role) == IF role = "ROLE_CALL_SCREENING" THEN 1001 ELSE 1002

\* What a role request finds: an Android below Q, no role manager or role, the role
\* already held, no current activity, or an activity that launches the dialog
RoleFindings == {"belowQ", "unavailable", "held", "noActivity", "launched"}

RoleInit ==
    /\ rrRequests = <<>>
    /\ rrPending = 0
    /\ rrSettled = [p \in 1..MaxRoleRequests |-> <<>>]
    /\ rrDialogs = {}

\* promise.resolve(value) on promise p, on account of request `of`
Resolve(settlements, p, value, of) ==
    [settlements EXCEPT ![p] = Append(@, [value |-> value, of |-> of])]

\* The Android version is the same for every request, and so is whether a role exists
DeviceAllows(role, finding) ==
    \A i \in DOMAIN rrRequests :
        /\ (rrRequests[i].finding = "belowQ") = (finding = "belowQ")
        /\ rrRequests[i].role = role =>
              ((rrRequests[i].finding = "unavailable") = (finding = "unavailable"))

\* requestCallScreeningRole(promise) / requestDialerRole(promise)
RequestRole(role, finding) ==
    /\ Len(rrRequests) < MaxRoleRequests
    /\ DeviceAllows(role, finding)
    /\ LET p == Len(rrRequests) + 1
       IN  /\ rrRequests' = Append(rrRequests, [role |-> role, finding |-> finding])
           /\ IF finding \in {"belowQ", "unavailable"}
              THEN /\ rrSettled' = Resolve(rrSettled, p, FALSE, p)
                   /\ UNCHANGED <<rrPending, rrDialogs>>
              ELSE IF finding = "held"
              THEN /\ rrSettled' = Resolve(rrSettled, p, TRUE, p)
                   /\ UNCHANGED <<rrPending, rrDialogs>>
              ELSE /\ rrPending' = p
                   /\ rrDialogs' = IF finding = "launched"
                                   THEN rrDialogs \cup {[code |-> RequestCode(role), of |-> p]}
                                   ELSE rrDialogs
                   /\ UNCHANGED rrSettled
    /\ UNCHANGED RoleOthers

\* onActivityResult for the dialog d: roleRequestPromise?.resolve(...), then null
OnActivityResult(d, resultOk) ==
    /\ d \in rrDialogs
    /\ rrDialogs' = rrDialogs \ {d}
    /\ IF d.code \in {RequestCode("ROLE_CALL_SCREENING"), RequestCode("ROLE_DIALER")}
       THEN /\ rrSettled' = IF rrPending # 0
                            THEN Resolve(rrSettled, rrPending, resultOk, d.of)
                            ELSE rrSettled
            /\ rrPending' = 0
       ELSE UNCHANGED <<rrSettled, rrPending>>
    /\ UNCHANGED rrRequests
    /\ UNCHANGED RoleOthers

\* Every dialog that was launched is answered or dismissed
DialogsAnswer == \E d \in rrDialogs, resultOk \in BOOLEAN : OnActivityResult(d, resultOk)

RoleNext ==
    \/ \E role \in Roles, finding \in RoleFindings : RequestRole(role, finding)
    \/ DialogsAnswer

\* The parts added after the first five, as constructed
LaterIdle == InCallInit /\ BlockedIdle /\ StatusIdle /\ AuthIdle /\ RoleInit

-----------------------------------------------------------------------------
(* Specifications: each part runs while the others stay as constructed    *)

Init == ScreenInit /\ MatchIdle /\ WrapperIdle /\ SettingsIdle /\ NetInit /\ LaterIdle

Spec == Init /\ [][Next]_vars

InitMatch == MatchInit /\ ScreenIdle /\ WrapperIdle /\ SettingsIdle /\ NetInit /\ LaterIdle

SpecMatch == InitMatch /\ [][MatchNext]_vars

InitHistory == HistoryInit /\ MatchIdle /\ WrapperIdle /\ SettingsIdle /\ NetInit /\ LaterIdle

SpecHistory == InitHistory /\ [][HistoryNext]_vars

InitWrapper == WrapperInit /\ MatchIdle /\ ScreenIdle /\ SettingsIdle /\ NetInit /\ LaterIdle

SpecWrapper == InitWrapper /\ [][WrapperNext]_vars

InitSettings == SettingsInit /\ MatchIdle /\ ScreenInit /\ WrapperInit /\ NetInit /\ LaterIdle

SpecSettings == InitSettings /\ [][SettingsNext]_vars

InitNet ==
    NetInit /\ MatchIdle /\ ScreenIdle /\ WrapperIdle /\ SettingsIdle /\ LaterIdle

SpecNet == InitNet /\ [][NetNext]_vars

FirstFiveIdle == MatchIdle /\ ScreenIdle /\ WrapperIdle /\ SettingsIdle /\ NetInit

InitInCall ==
    InCallInit /\ FirstFiveIdle /\ BlockedIdle /\ StatusIdle /\ AuthIdle /\ RoleInit

SpecInCall == InitInCall /\ [][InCallNext]_vars

InitBlocked ==
    BlockedInit /\ FirstFiveIdle /\ InCallInit /\ StatusIdle /\ AuthIdle /\ RoleInit

InitStatus ==
    /\ StatusInit /\ WrapperInit
    /\ MatchIdle /\ ScreenIdle /\ SettingsIdle /\ NetInit /\ InCallInit /\ BlockedIdle
    /\ AuthIdle /\ RoleInit

SpecStatus == InitStatus /\ [][StatusNext]_vars

InitAuth ==
    AuthInit /\ FirstFiveIdle /\ InCallInit /\ BlockedIdle /\ StatusIdle /\ RoleInit

InitRole ==
    RoleInit /\ FirstFiveIdle /\ InCallInit /\ BlockedIdle /\ StatusIdle /\ AuthIdle

\* The user answers or dismisses every system dialog that is shown
SpecRole == InitRole /\ [][RoleNext]_vars /\ WF_vars(DialogsAnswer)

SpecAuth == InitAuth /\ [][AuthNext]_vars

SpecBlocked == InitBlocked /\ [][BlockedNext]_vars

-----------------------------------------------------------------------------
(* Properties                                                              *)

SameLast9(n, b) ==
    LET dn == KeepChars(n, Digits)
        db == KeepChars(b, Digits)
    IN  /\ Len(dn) >= NormalizedLen
        /\ Len(db) >= NormalizedLen
        /\ TakeLast(dn, NormalizedLen) = TakeLast(db, NormalizedLen)

Classified == mResult # <<>>

\* C1: a number whose digits end in the same 9 digits as those of a stored entry is
\* classified as blocked by every native matcher (the screening service, the in-call
\* activity, the earlier services), whatever the written forms of the two.
C1_Same9DigitsBlockedEverywhere ==
    (Classified /\ \E i \in 1..Len(mList) : SameLast9(mNumber, mList[i]))
        => (mResult[1].tts /\ mResult[1].incall /\ mResult[1].old)

StoredHistory == PrefGet(prefs, ServiceKey(build.service, "history"), <<>>)

\* The stored history in the order the calls were blocked
Chronological(history) ==
    IF build.service = "tts"
    THEN [i \in 1..Len(history) |-> history[Len(history) + 1 - i]]
    ELSE history

Stamps(history) == [i \in 1..Len(history) |-> history[i].blocked_at]

LogStamps == [i \in 1..Len(blockedLog) |-> blockedLog[i].id]

\* C2: after any sequence of blocked calls and clears the stored history holds at most
\* 100 entries, and they are the most recently blocked calls since the last clear, the
\* oldest being the ones dropped.
C2_HistoryCappedMostRecent ==
    /\ Len(StoredHistory) <= HistoryCap
    /\ Stamps(Chronological(StoredHistory)) = TakeLast(LogStamps, HistoryCap)

C2_Witness_CapExceeded ==
    /\ Len(blockedLog) > HistoryCap
    /\ Len(StoredHistory) = HistoryCap
    /\ lastCall # <<>>

Count(x, seq) == Cardinality({ i \in 1..Len(seq) : seq[i] = x })

\* C3: every onScreenCall, whichever branch it takes, calls respondToCall exactly once
\* before it returns, and no delayed or speech callback calls respondToCall.
C3_RespondsOnceBeforeReturn ==
    /\ lastCall # <<>> =>
          /\ Count("respondToCall", lastCall[1].effects) = 1
          /\ lastCall[1].response # <<>>
    /\ lastCallback # <<>> => Count("respondToCall", lastCallback[1].effects) = 0

C3_Witness_AIBranchAnswered ==
    /\ lastCall # <<>>
    /\ lastCall[1].branch = "ai"
    /\ lastCall[1].response # <<>>
    /\ \E t \in timers : t.id = lastCall[1].id

StoredBlockedNumbers(p) == PrefGet(p, ServiceKey(build.service, "blocked"), <<>>)

SharesLast9WithNone(n, numbers) == \A i \in 1..Len(numbers) : ~SameLast9(n, numbers[i])

\* C4: an updateBlockedNumbers(L) leaves exactly L stored; from then on, with auto-block
\* enabled, a call from a number of L is answered disallow+reject, and a call from a
\* number that was in the previous list and shares its last 9 digits with no entry of L
\* is not blocked as spam.
C4_ReplacedListDecides ==
    [][ \A numbers \in StoredLists :
          UpdateBlockedNumbers(numbers) =>
            /\ StoredBlockedNumbers(prefs') = numbers
            /\ \A n \in CallerNumbers :
                 LET branch == onScreenCallBranch(build.service, prefs', n, FALSE)
                 IN  /\ ( /\ PrefGet(prefs', ServiceKey(build.service, "auto"), TRUE)
                          /\ n \in Range(numbers) )
                        => onScreenCallResponse(build.service, branch) = BlockResponse
                     /\ ( /\ n \in Range(StoredBlockedNumbers(prefs))
                          /\ SharesLast9WithNone(n, numbers) )
                        => branch # "spam" ]_vars

BlockUnknownEnabled == PrefGet(prefs, ServiceKey(build.service, "unknown"), FALSE)

\* C6: with block-unknown enabled, a call from a number that is in the contacts and
\* shares its last 9 digits with no entry of the blocked list is allowed.
C6_ListedContactsOnlyBlockedAsSpam ==
    ( /\ lastCall # <<>>
      /\ BlockUnknownEnabled
      /\ lastCall[1].inContacts
      /\ SharesLast9WithNone(lastCall[1].number, StoredBlockedNumbers(prefs)) )
        => ~lastCall[1].response[1].disallow

Records(history) ==
    [i \in 1..Len(history) |->
        [phone_number |-> history[i].phone_number, id |-> history[i].blocked_at]]

\* C7: the history getBlockedCallHistory returns holds one record for each call answered
\* disallow+reject since the last clearBlockedCallHistory and no other record, each with
\* the number of its call, up to the cap of 100: the module reads what the service wrote.
C7_HistoryIsTheBlockedCalls ==
    Records(Chronological(getBlockedCallHistory(build.module, prefs)))
        = TakeLast(blockedLog, HistoryCap)

C7_Witness_BlockedThenAllowed ==
    /\ lastCall # <<>>
    /\ ~lastCall[1].response[1].disallow
    /\ Len(getBlockedCallHistory(build.module, prefs)) = 1
    /\ clock = 2

SafeDefaults == {"false", "null", "[]"}

\* C8 as stated: off Android every wrapper operation ends with false, null or an empty
\* array and makes no native call.
C8_NotAndroidFalseNullOrEmpty ==
    (platform # "android" /\ settled # <<>>)
        => /\ settled[1].how \in {"resolved", "returned"}
           /\ settled[1].value \in SafeDefaults
           /\ nativeCalls = 0

\* C8: off Android every wrapper operation resolves without a native call, to false,
\* null or an empty array, except getAIScreeningDelay, which resolves to the default
\* delay 3.
C8_NotAndroidDefaultNoNativeCall ==
    (platform # "android" /\ settled # <<>>)
        => /\ settled[1].how \in {"resolved", "returned"}
           /\ nativeCalls = 0
           /\ IF settled[1].op = "getAIScreeningDelay"
              THEN settled[1].value = "3"
              ELSE settled[1].value \in SafeDefaults

C8_Witness_DelayOffAndroid ==
    /\ platform = "ios"
    /\ settled # <<>>
    /\ settled[1].op = "getAIScreeningDelay"
    /\ settled[1].value = "3"

NativeFailed == settled # <<>> /\ settled[1].native \in {"rejects", "throws"}

\* C9 as stated: on Android, when the native module rejects or throws, every wrapper
\* operation resolves to false, null or an empty array and does not reject.
C9_NativeFailureFalseNullOrEmpty ==
    (platform = "android" /\ NativeFailed)
        => /\ settled[1].how = "resolved"
           /\ settled[1].value \in SafeDefaults

\* C9: on Android, when the native module rejects or throws, every wrapper operation
\* resolves and never rejects; the value is false, null or an empty array, except for
\* getAIScreeningDelay, which resolves to the default delay 3.
C9_NativeFailureResolvesDefault ==
    (platform = "android" /\ NativeFailed)
        => /\ settled[1].how = "resolved"
           /\ IF settled[1].op = "getAIScreeningDelay"
              THEN settled[1].value = "3"
              ELSE settled[1].value \in SafeDefaults

C9_Witness_PendingScreeningsRejected ==
    /\ platform = "android"
    /\ settled # <<>>
    /\ settled[1].op = "getPendingScreenings"
    /\ settled[1].native = "rejects"
    /\ settled[1].value = "[]"

\* C5: once an updateSetting('auto_block_spam', v) has returned with the change accepted
\* and no later toggle was made, the native setting is v: getSettings reports v, the
\* screening service reads v, and the backend holds v for the next reload.
C5_AcceptedToggleReachesNative ==
    \A c \in completed :
        ( /\ c.id = started
          /\ c.ok
          /\ c.native = "resolves"
          /\ platform = "android" )
            => /\ getSettings(build.module, prefs).auto_block_spam = c.value
               /\ PrefGet(prefs, ServiceKey(build.service, "auto"), TRUE) = c.value
               /\ server = c.value

\* C10 as stated: whatever happens to its request, every function of the client that
\* makes a network call resolves; none rejects to its caller.
C10_EveryNetworkFunctionResolves ==
    \A e \in netSettled : e.how = "resolved"

\* C10: whatever happens to its request, every function of the client that makes a
\* network call resolves, except transcribeAudio, which logs the failure and throws it
\* again; processCallerAudio, which awaits it, catches that and resolves the record
\* named Erreur.
C10_OnlyTranscriptionRethrows ==
    /\ \A e \in netSettled : e.how = "rejected" => e.fn = "transcribeAudio"
    /\ \A e \in netSettled :
          e.fn = "processCallerAudio" =>
              /\ e.how = "resolved"
              /\ (\E t \in netSettled : t.fn = "transcribeAudio" /\ t.how = "rejected")
                    => e.value = "Erreur"

C10_Witness_PipelineCatchesTranscription ==
    /\ \E t \in netSettled :
          t.fn = "transcribeAudio" /\ t.how = "rejected" /\ t.cause = "throw"
    /\ \E e \in netSettled :
          e.fn = "processCallerAudio" /\ e.how = "resolved" /\ e.value = "Erreur"

\* C11: processCallerAudio makes at most two requests; the extraction request is in
\* flight only after the transcription request ended with a text that is not empty, and
\* when the transcription failed or gave an empty text no extraction request is made.
C11_ExtractionOnlyAfterTranscribedText ==
    ( \/ (netStack # <<>> /\ netStack[1] = "processCallerAudio")
      \/ \E e \in netSettled : e.fn = "processCallerAudio" )
    => /\ netRequests <= 2
       /\ ( \/ netStack = <<"processCallerAudio", "extractCallerInfo">>
            \/ \E e \in netSettled : e.fn = "extractCallerInfo" )
            => /\ netRequests = 2
               /\ \E t \in netSettled :
                     /\ t.fn = "transcribeAudio"
                     /\ t.how = "resolved"
                     /\ t.value \notin {"", " "}
       /\ (\E t \in netSettled :
                /\ t.fn = "transcribeAudio"
                /\ (t.how = "rejected" \/ t.value \in {"", " "}))
            => /\ netRequests = 1
               /\ netStack = <<>>
               /\ \A e \in netSettled : e.fn # "extractCallerInfo"
       /\ netStack = <<"processCallerAudio", "transcribeAudio">>
            => netRequests = 1 /\ netSettled = {}

C11_Witness_ExtractionRequested ==
    /\ netStack = <<"processCallerAudio", "extractCallerInfo">>
    /\ netRequests = 2
    /\ \E t \in netSettled : t.fn = "transcribeAudio" /\ t.value = "text"

\* The answers requested by the timer callbacks
TimerAnswers == { icAnswers[i] : i \in { j \in DOMAIN icAnswers : icAnswers[j].by = "timer" } }

\* C12: a callback posted by scheduleAIScreening answers only a call that is ringing
\* when it runs, and only the call it was scheduled for: once that call has ended the
\* callback answers nothing.
C12_TimerAnswersOnlyItsRingingCall ==
    \A a \in TimerAnswers : a.state = "RINGING" /\ a.call = a.owner

SuffixRelated(n, b) ==
    LET dn == TakeLast(KeepChars(n, Digits), NormalizedLen)
        db == TakeLast(KeepChars(b, Digits), NormalizedLen)
    IN  /\ dn # <<>>
        /\ db # <<>>
        /\ (EndsWith(dn, db) \/ EndsWith(db, dn))

\* C14: a native matcher classifies a number as blocked only when the number and some
\* stored entry are in a suffix relation over their last 9 digits; a hidden number, an
\* entry without digits or a short entry that only occurs inside the number blocks
\* nothing.
C14_BlockedOnlyBySuffixRelation ==
    (Classified /\ (mResult[1].tts \/ mResult[1].incall \/ mResult[1].old))
        => \E i \in 1..Len(mList) : SuffixRelated(mNumber, mList[i])

AutoBlockEnabled == PrefGet(prefs, ServiceKey(build.service, "auto"), TRUE)

\* C15: while auto-block is disabled the screening service disallows no call, whatever
\* the blocked list and the block-unknown setting hold.
C15_AutoBlockOffAllowsEveryCall ==
    (lastCall # <<>> /\ ~AutoBlockEnabled)
        => \A i \in DOMAIN lastCall[1].response : ~lastCall[1].response[i].disallow

\* C16: the screening service starts AI screening only for a call from a number that is
\* neither in the user's contacts nor on the blocked list.
C16_AIScreeningOnlyForUnknownNumbers ==
    (lastCall # <<>> /\ lastCall[1].branch = "ai")
        => /\ ~lastCall[1].inContacts
           /\ SharesLast9WithNone(lastCall[1].number, StoredBlockedNumbers(prefs))

\* Who made the first answer request of a call
FirstAnswerBy(call) ==
    { icAnswers[i].by : i \in { j \in DOMAIN icAnswers :
                                   /\ icAnswers[j].call = call
                                   /\ \A k \in 1..(j - 1) : icAnswers[k].call # call } }

\* C17: performAIScreening speaks the greeting only on a call that the auto-answer
\* callback answered; on a call the user answered first it is not triggered.
C17_GreetingOnlyOnTimerAnsweredCalls ==
    \A call \in icGreeted : FirstAnswerBy(call) = {"timer"}

\* C18: on Android, when checkCallBlockerStatus has ended and no native call rejected,
\* the three flags of the screen hold the values of the native module; and the wrapper
\* has every operation the settings screen calls.
C18_StatusFlagsMirrorNative ==
    (platform = "android" /\ stPc = Len(StatusSteps) + 1 /\ ~stFailed)
        => /\ stScreen = stNative
           /\ \A op \in ScreenOps : op \in AsyncOps(wrapper)

\* A toggle whose PUT was refused or threw ends in this step
EndsFailed(t) ==
    /\ t \in toggles
    /\ t.pc \in {"notok", "throw"}
    /\ t \notin toggles'

\* C19: when updateSetting ends after a failed PUT, the switch shows the value it showed
\* before that toggle and the native preferences are as they were; and the native
\* preferences change only in a step of a toggle whose PUT the backend accepted. Other
\* toggles of the same setting may be in flight.
C19_FailedPutRevertsAndKeepsNative ==
    [][ /\ \A t \in toggles :
              EndsFailed(t) => (shown' = t.previousValue /\ prefs' = prefs)
        /\ prefs' # prefs =>
              \E t \in toggles : t.pc \in {"ok", "sync"} /\ t \notin toggles' ]_vars

\* A toggle has ended after a failed PUT while another toggle is still in flight
C19_Witness_FailedPutDuringOverlap ==
    /\ \E c \in completed : ~c.ok /\ c.native = "none"
    /\ toggles # {}

\* C20: every logout that has ended left the stored session token removed, user null
\* and sessionToken null, so that isAuthenticated was false, whatever the POST did.
C20_LogoutAlwaysClearsSession ==
    \A e \in auEnded :
        /\ e.stored = "none"
        /\ e.user = "none"
        /\ e.token = "none"
        /\ ~isAuthenticated(e.user)

\* C21: when checkExistingSession ends after GET /api/auth/me rejected the stored token
\* and the token was cleared from storage, isAuthenticated is false, at start-up and
\* under refreshUser alike.
C21_RejectedTokenEndsSession ==
    [][ \A r \in auRuns :
            (r.fn = "check" /\ r.pc = "remove" /\ r \notin auRuns' /\ auStored' = "none")
                => ~isAuthenticated(auUser') ]_vars

\* The auto-answer callback t runs in this step while the call it was scheduled for is
\* not the current call
FiresForAnotherCall(t) ==
    /\ t \in icTimers
    /\ t.kind = "answer"
    /\ t \notin icTimers'
    /\ (icCurrent = <<>> \/ icCurrent[1].id # t.owner)

\* C22: an auto-answer callback that runs after its own call has ended answers no
\* call, even when another call is ringing at that moment.
C22_AutoAnswerNeverAnswersAnotherCall ==
    [][ \A t \in icTimers : FiresForAnotherCall(t) => icAnswers' = icAnswers ]_vars

\* The promise of request p was settled once, with the result of request p
SettledOnceWithOwnResult(p) ==
    /\ Len(rrSettled[p]) = 1
    /\ rrSettled[p][1].of = p

\* C23: every promise passed to a role request is eventually settled, never more than
\* once and never with the result of another request.
C23_RolePromiseSettledOnceWithOwnResult ==
    /\ [](\A p \in 1..MaxRoleRequests :
            Len(rrSettled[p]) <= 1 /\ (Len(rrSettled[p]) = 1 => rrSettled[p][1].of = p))
    /\ \A p \in 1..MaxRoleRequests :
            (Len(rrRequests) >= p) ~> SettledOnceWithOwnResult(p)

=============================================================================
